---- MODULE Spec2Model ----
(***************************************************************************)
(* Serverless handlers of the Wave / GitHub integration layer.             *)
(*                                                                         *)
(* One handler invocation is modelled at a time: the environment (process  *)
(* configuration) and the request are fixed when the invocation starts,    *)
(* every await on an external call is one step whose response is chosen    *)
(* by the external service, and the invocation ends when json(res, ...)    *)
(* has written the response.                                               *)
(*                                                                         *)
(* JavaScript values: strings are strings, with NullStr standing for a     *)
(* null/undefined string slot; objects are records, arrays are records     *)
(* [items |-> <<...>>], and NULL stands for a null/undefined object or     *)
(* array slot.  The empty string and NULL/NullStr are falsy, every object  *)
(* and every array (the empty one included) is truthy.                     *)
(***************************************************************************)
EXTENDS Integers, Sequences, FiniteSets, TLC

VARIABLES
  env,         \* process.env, read at request time
  req,         \* the request being handled
  pc,          \* where the handler is: "start", an awaited call, "done"
  calls,       \* the network requests issued so far, in order
  customerId,  \* invoice handler: result of createCustomer
  invoiceId,   \* invoice handler: invoiceId of createInvoice
  viewUrl,     \* invoice handler: viewUrl of createInvoice
  paymentUrl,  \* invoice handler: let paymentUrl
  approved,    \* outcome of the approve attempt: "pending", "ok", "failed"
  sent,        \* outcome of the send attempt, with the URL it returned
  results,     \* provisioning handler: const results
  errors,      \* provisioning handler: const errors
  attempts,    \* provisioning handler: createProduct invocations, in order
  res,         \* the response written by json(res, status, data)
  caught,      \* the error caught by the handler's catch block, and where
  customerReply, \* what the service answered to the customer-create call
  invoiceReply,  \* what the service answered to the invoice-create call
  reply,       \* single-call handlers: what the service answered
  path,        \* upload handler: const path
  result       \* waveQuery called on its own: what it returned or threw

vars == <<env, req, pc, calls, customerId, invoiceId, viewUrl, paymentUrl,
          approved, sent, results, errors, attempts, res, caught,
          customerReply, invoiceReply, reply, path, result>>

\* the variables only the invoice handler writes
invoiceVars == <<customerId, invoiceId, viewUrl, paymentUrl, approved, sent,
                 customerReply, invoiceReply>>
\* the variables only the provisioning handlers write
provisionVars == <<results, errors, attempts>>

----------------------------------------------------------------------------
(* Bounds *)

\* longest error list (top-level errors, inputErrors) a service response carries
MaxErrs == 1
\* longest uploaded filename, in characters
MaxLen == 2
\* most edges (accounts, products, businesses) a listing query returns
MaxEdges == 2

----------------------------------------------------------------------------
(* JavaScript value helpers *)

NULL == [null |-> TRUE]
NullStr == "<null>"

TruthyStr(s) == s # NullStr /\ s # ""
TruthyObj(o) == o # NULL

Arr(s) == [items |-> s]

Throw(message, waveErrors, requests) ==
  [threw |-> TRUE, error |-> [message |-> message, waveErrors |-> waveErrors],
   requests |-> requests]
Return(value, requests) ==
  [threw |-> FALSE, value |-> value, requests |-> requests]

----------------------------------------------------------------------------
(* Program constants *)

PACKAGE_CATALOG ==
  [core   |-> [name |-> "Core System Package", price |-> 5000],
   growth |-> [name |-> "Growth Accelerator Package", price |-> 7500],
   full   |-> [name |-> "Full Ecosystem Package", price |-> 10000]]

DEMO_URL == "https://link.waveapps.com/payment-demo"

\* Object.keys(PACKAGES), in insertion order
PackageOrder == <<"core", "growth", "full">>

\* a property every object literal inherits from Object.prototype
InheritedKeys == {"constructor"}

----------------------------------------------------------------------------
(* What the external services can answer *)

ErrorMessages == {"Invalid email", "Not permitted"}
ErrorItems == [message : ErrorMessages]
ErrorLists == UNION {[1..n -> ErrorItems] : n \in 0..MaxErrs}
\* an errors / inputErrors slot: absent (NULL) or an array, possibly empty
ErrorsField == {NULL} \cup {Arr(l) : l \in ErrorLists}

Urls == {NullStr, "", "https://wave/view", "https://wave/sent"}

\* a fetch either rejects (network failure, body that is not JSON) or yields
\* a transport status and a parsed body {errors, data}; a body sent with a
\* failed status or with an errors entry carries no data
Responses(field, payloads) ==
  {[kind |-> "reject"]} \cup
  {r \in [kind : {"json"}, ok : BOOLEAN, errors : ErrorsField, data : {NULL}] :
     ~r.ok \/ r.errors # NULL} \cup
  [kind : {"json"}, ok : {TRUE}, errors : {NULL},
   data : {NULL} \cup {[f \in {field} |-> p] : p \in {NULL} \cup payloads}]

\* every reply a fetch can produce, data alongside errors included
ResponsesFull(field, payloads) ==
  {[kind |-> "reject"]} \cup
  [kind : {"json"}, ok : BOOLEAN, errors : ErrorsField,
   data : {NULL} \cup {[f \in {field} |-> p] : p \in {NULL} \cup payloads}]

StatusText(resp) == IF resp.ok THEN "OK" ELSE "Bad Gateway"

CustomerPayloads ==
  [didSucceed : BOOLEAN, inputErrors : ErrorsField,
   customer : {NULL, [id |-> "cust_1"]}]
InvoicePayloads ==
  [didSucceed : BOOLEAN, inputErrors : ErrorsField,
   invoice : {NULL} \cup [id : {"inv_1"}, viewUrl : Urls \ {"https://wave/sent"}]]
ApprovePayloads ==
  [didSucceed : BOOLEAN, inputErrors : {NULL},
   invoice : {NULL, [id |-> "inv_1", status |-> "SAVED"]}]
SendPayloads ==
  [didSucceed : BOOLEAN, inputErrors : {NULL},
   invoice : {NULL} \cup [id : {"inv_1"}, viewUrl : Urls \ {"https://wave/view"}]]

----------------------------------------------------------------------------
(* JSON.stringify of an error list *)

RECURSIVE StringifyItems(_)
StringifyItems(l) ==
  IF l = <<>> THEN ""
  ELSE "{\"message\":\"" \o Head(l).message \o "\"}"
       \o (IF Len(l) > 1 THEN "," ELSE "") \o StringifyItems(Tail(l))

Stringify(errs) == "[" \o StringifyItems(errs.items) \o "]"

----------------------------------------------------------------------------
(* Invoice function (create-invoice): helpers *)

\* waveQuery of the invoice function
waveQuery(op, input, resp) ==
  IF ~TruthyStr(env.WAVE_API_KEY)
  THEN Throw("Missing WAVE_API_KEY", NULL, <<>>)
  ELSE LET request == <<[op |-> op, input |-> input]>> IN
       IF resp.kind = "reject"
       THEN Throw("fetch failed", NULL, request)
       ELSE IF ~resp.ok \/ TruthyObj(resp.errors)
       THEN LET msg == IF TruthyObj(resp.errors) THEN Stringify(resp.errors)
                       ELSE StatusText(resp)
            IN Throw("Wave GraphQL error: " \o msg, resp.errors, request)
       ELSE Return(resp.data, request)

\* res && res.inputErrors && res.inputErrors[0] ? firstErr.message : fallback
FirstErrMessage(r, fallback) ==
  IF TruthyObj(r) /\ TruthyObj(r.inputErrors) /\ Len(r.inputErrors.items) > 0
  THEN r.inputErrors.items[1].message
  ELSE fallback

TypeErrorMessage == "Cannot read properties of null"

\* a createCustomer that does not look at didSucceed
createCustomer_unchecked(businessId, clientName, clientEmail, resp) ==
  LET q == waveQuery("customerCreate",
                     [businessId |-> businessId, name |-> clientName,
                      email |-> clientEmail], resp)
  IN IF q.threw THEN q
     ELSE IF q.value = NULL THEN Throw(TypeErrorMessage, NULL, q.requests)
     ELSE LET r == q.value.customerCreate IN
          IF ~TruthyObj(r) \/ ~TruthyObj(r.customer)
          THEN Throw("Create customer failed: " \o FirstErrMessage(r, "Unknown error"),
                     NULL, q.requests)
          ELSE Return(r.customer.id, q.requests)

createCustomer(businessId, clientName, clientEmail, resp) ==
  LET q == waveQuery("customerCreate",
                     [businessId |-> businessId, name |-> clientName,
                      email |-> clientEmail], resp)
  IN IF q.threw THEN q
     ELSE IF q.value = NULL THEN Throw(TypeErrorMessage, NULL, q.requests)
     ELSE LET r == q.value.customerCreate IN
          IF ~TruthyObj(r) \/ ~r.didSucceed \/ ~TruthyObj(r.customer)
          THEN Throw("Create customer failed: " \o FirstErrMessage(r, "Unknown error"),
                     NULL, q.requests)
          ELSE Return(r.customer.id, q.requests)

\* PACKAGE_CATALOG[packageKey]: an own entry, an inherited member of
\* Object.prototype (truthy, its price undefined), or undefined
CatalogLookup(packageKey) ==
  IF packageKey \in DOMAIN PACKAGE_CATALOG
  THEN [kind |-> "entry", name |-> PACKAGE_CATALOG[packageKey].name,
        price |-> PACKAGE_CATALOG[packageKey].price]
  ELSE IF packageKey \in InheritedKeys
  THEN [kind |-> "inherited", name |-> "Object"]
  ELSE NULL

\* Math.round(x / 2) for a non-negative integer x
MathRoundHalf(x) == (x + 1) \div 2

\* Math.round(pkg.price * 0.5 * 100), the deposit in cents
DepositCents(price) == MathRoundHalf(price * 100)

\* String(cents / 100)
DecimalString(cents) ==
  LET whole == cents \div 100
      frac == cents % 100
  IN IF frac = 0 THEN ToString(whole)
     ELSE IF frac % 10 = 0 THEN ToString(whole) \o "." \o ToString(frac \div 10)
     ELSE IF frac < 10 THEN ToString(whole) \o ".0" \o ToString(frac)
     ELSE ToString(whole) \o "." \o ToString(frac)

\* a unit price taken from the amount the client sent
UnitPrice_fromRequest(pkg) == ToString(req.body.invoice.amount)

\* String(deposit): NaN when the price is undefined
UnitPrice(pkg) ==
  IF pkg.kind = "entry" THEN DecimalString(DepositCents(pkg.price)) ELSE "NaN"

\* a resolution that prefers the generic identifier to the per-package one
ProductId_genericFirst(packageKey) ==
  LET perPackage ==
        IF packageKey = "core" THEN env.WAVE_PRODUCT_ID_CORE
        ELSE IF packageKey = "growth" THEN env.WAVE_PRODUCT_ID_GROWTH
        ELSE IF packageKey = "full" THEN env.WAVE_PRODUCT_ID_FULL
        ELSE IF packageKey \in InheritedKeys THEN "[Function]"
        ELSE NullStr
  IN IF TruthyStr(env.WAVE_PRODUCT_ID) THEN env.WAVE_PRODUCT_ID
     ELSE IF TruthyStr(perPackage) THEN perPackage
     ELSE ""

\* productIdMap[packageKey] || process.env.WAVE_PRODUCT_ID || ''
\* (an inherited member is a function: truthy, dropped by JSON.stringify)
ProductId(packageKey) ==
  LET perPackage ==
        IF packageKey = "core" THEN env.WAVE_PRODUCT_ID_CORE
        ELSE IF packageKey = "growth" THEN env.WAVE_PRODUCT_ID_GROWTH
        ELSE IF packageKey = "full" THEN env.WAVE_PRODUCT_ID_FULL
        ELSE IF packageKey \in InheritedKeys THEN "[Function]"
        ELSE NullStr
  IN IF TruthyStr(perPackage) THEN perPackage
     ELSE IF TruthyStr(env.WAVE_PRODUCT_ID) THEN env.WAVE_PRODUCT_ID
     ELSE ""

\* "Wave requires a productId for each line item": an invoice-create request
\* whose productId is not a string (a function is dropped by JSON.stringify)
\* is never answered with a created invoice
InvoiceResponses(packageKey) ==
  {resp \in Responses("invoiceCreate", InvoicePayloads) :
     ProductId(packageKey) = "[Function]" =>
       ~(/\ resp.kind = "json" /\ resp.data # NULL /\ resp.data.invoiceCreate # NULL
         /\ resp.data.invoiceCreate.didSucceed
         /\ resp.data.invoiceCreate.invoice # NULL)}

ProductIdGuidance ==
  "Set WAVE_PRODUCT_ID_<PACKAGE> (CORE/GROWTH/FULL) or WAVE_PRODUCT_ID to a valid Product ID in your Wave business."

createInvoice(businessId, custId, packageKey, resp) ==
  LET pkg == CatalogLookup(packageKey) IN
  IF ~TruthyObj(pkg) THEN Throw("Unknown package key", NULL, <<>>)
  ELSE LET productId == ProductId(packageKey) IN
  IF ~TruthyStr(productId)
  THEN Throw("Missing WAVE_PRODUCT_ID", Arr(<<[message |-> ProductIdGuidance]>>), <<>>)
  ELSE
  LET q == waveQuery("invoiceCreate",
                     [businessId |-> businessId, customerId |-> custId,
                      productId |-> productId, unitPrice |-> UnitPrice(pkg),
                      quantity |-> 1], resp)
  IN IF q.threw THEN q
     ELSE IF q.value = NULL THEN Throw(TypeErrorMessage, NULL, q.requests)
     ELSE LET r == q.value.invoiceCreate IN
          IF ~TruthyObj(r) \/ ~r.didSucceed \/ ~TruthyObj(r.invoice)
          THEN Throw("Create invoice failed: " \o FirstErrMessage(r, "Unknown error"),
                     NULL, q.requests)
          ELSE Return([invoiceId |-> r.invoice.id,
                       viewUrl |-> IF TruthyStr(r.invoice.viewUrl)
                                   THEN r.invoice.viewUrl ELSE NullStr],
                      q.requests)

sendInvoice(invId, resp) ==
  LET q == waveQuery("invoiceSend", [invoiceId |-> invId], resp)
  IN IF q.threw THEN q
     ELSE IF q.value = NULL THEN Throw(TypeErrorMessage, NULL, q.requests)
     ELSE LET r == q.value.invoiceSend IN
          IF ~TruthyObj(r) \/ ~r.didSucceed \/ ~TruthyObj(r.invoice)
          THEN Throw("Send invoice failed: " \o FirstErrMessage(r, "Unknown error"),
                     NULL, q.requests)
          ELSE Return(IF TruthyStr(r.invoice.viewUrl) THEN r.invoice.viewUrl
                      ELSE NullStr, q.requests)

approveInvoice(invId, resp) ==
  LET q == waveQuery("invoiceApprove", [invoiceId |-> invId], resp)
  IN IF q.threw THEN q
     ELSE IF q.value = NULL THEN Throw(TypeErrorMessage, NULL, q.requests)
     ELSE LET r == q.value.invoiceApprove IN
          IF ~TruthyObj(r) \/ ~r.didSucceed \/ ~TruthyObj(r.invoice)
          THEN Throw("Approve invoice failed: " \o FirstErrMessage(r, "Unknown error"),
                     NULL, q.requests)
          ELSE Return(r.invoice.status, q.requests)

\* json(res, status, data)
json(status, data) == [statusCode |-> status, body |-> data]

Unanswered == [statusCode |-> 0, body |-> NULL]

----------------------------------------------------------------------------
(* Environment and requests *)

Setting(name) == {"", name}

EnvAll ==
  [WAVE_API_KEY : Setting("key"), WAVE_BUSINESS_ID : Setting("biz"),
   WAVE_PRODUCT_ID : Setting("prod_generic"),
   WAVE_PRODUCT_ID_CORE : Setting("prod_core"),
   WAVE_PRODUCT_ID_GROWTH : Setting("prod_growth"),
   WAVE_PRODUCT_ID_FULL : Setting("prod_full"),
   WAVE_INCOME_ACCOUNT_ID : Setting("acct_income"),
   GITHUB_TOKEN : Setting("token"), GITHUB_REPO : Setting("owner/repo")]

EnvNames == DOMAIN [WAVE_API_KEY |-> "", WAVE_BUSINESS_ID |-> "",
   WAVE_PRODUCT_ID |-> "", WAVE_PRODUCT_ID_CORE |-> "",
   WAVE_PRODUCT_ID_GROWTH |-> "", WAVE_PRODUCT_ID_FULL |-> "",
   WAVE_INCOME_ACCOUNT_ID |-> "", GITHUB_TOKEN |-> "", GITHUB_REPO |-> ""]

\* the settings a handler reads; the others are left unset
EnvReading(names) == {e \in EnvAll : \A n \in EnvNames \ names : e[n] = ""}

PackageKeys == {"", "core", "growth", "full", "platinum"} \cup InheritedKeys

ContractData ==
  [clientName |-> "Ada", clientEmail |-> "ada@example.com", contractId |-> "CF-1"]

InvoiceRequests ==
  [endpoint : {"invoice"}, method : {"GET", "POST"},
   body : {NULL} \cup
          [contractData : {NULL, ContractData},
           invoice : {NULL} \cup [packageKey : PackageKeys, amount : {1, 999}]]]

InvoiceEnv ==
  EnvReading({"WAVE_API_KEY", "WAVE_BUSINESS_ID", "WAVE_PRODUCT_ID",
              "WAVE_PRODUCT_ID_CORE", "WAVE_PRODUCT_ID_GROWTH",
              "WAVE_PRODUCT_ID_FULL"})

InitLocals ==
  /\ pc = "start"
  /\ calls = <<>>
  /\ customerId = NullStr
  /\ invoiceId = NullStr
  /\ viewUrl = NullStr
  /\ paymentUrl = NullStr
  /\ approved = "pending"
  /\ sent = [state |-> "pending"]
  /\ results = <<>>
  /\ errors = <<>>
  /\ attempts = <<>>
  /\ res = Unanswered
  /\ caught = NULL
  /\ customerReply = NULL
  /\ invoiceReply = NULL
  /\ reply = NULL
  /\ path = <<>>
  /\ result = NULL

----------------------------------------------------------------------------
(* Invoice handler (module.exports of the invoice function) *)

\* const { contractData, invoice } = req.body || {}
BodyOf(r) == IF TruthyObj(r.body) THEN r.body ELSE [contractData |-> NULL, invoice |-> NULL]

\* a catch block that reports the failure as a server error
Fallback_500(error) ==
  json(500, [mode |-> "fallback", paymentUrl |-> DEMO_URL,
             error |-> IF error.message # "" THEN error.message ELSE "Unknown error",
             errorDetails |-> error.waveErrors])

\* the catch block: fall back to the demo link
Fallback(error) ==
  json(200, [mode |-> "fallback", paymentUrl |-> DEMO_URL,
             error |-> IF error.message # "" THEN error.message ELSE "Unknown error",
             errorDetails |-> error.waveErrors])

\* a configuration check that demands only one of the two settings be missing
NotConfigured_both ==
  ~TruthyStr(env.WAVE_API_KEY) /\ ~TruthyStr(env.WAVE_BUSINESS_ID)

\* if (!apiKey || !businessId)
NotConfigured ==
  ~TruthyStr(env.WAVE_API_KEY) \/ ~TruthyStr(env.WAVE_BUSINESS_ID)

\* method check, body validation, configuration check
InvoiceStart ==
  /\ req.endpoint = "invoice" /\ pc = "start"
  /\ LET contractData == BodyOf(req).contractData
         invoice == BodyOf(req).invoice
     IN IF req.method # "POST"
        THEN res' = json(405, [error |-> "Method not allowed"]) /\ pc' = "done"
        ELSE IF ~TruthyObj(contractData) \/ ~TruthyObj(invoice)
                \/ ~TruthyStr(invoice.packageKey)
        THEN /\ res' = json(400, [error |-> "Missing contractData or invoice.packageKey"])
             /\ pc' = "done"
        ELSE IF NotConfigured
        THEN /\ res' = json(200, [mode |-> "demo", paymentUrl |-> DEMO_URL,
                                  note |-> "WaveApps environment variables not set. Returning demo link."])
             /\ pc' = "done"
        ELSE res' = res /\ pc' = "createCustomer"
  /\ UNCHANGED <<env, req, calls, customerId, invoiceId, viewUrl, paymentUrl,
                 approved, sent, results, errors, attempts, caught,
                 customerReply, invoiceReply, reply, path, result>>

\* a customer step that tries a second time after a failure
InvoiceCreateCustomer_retry ==
  /\ req.endpoint = "invoice" /\ pc = "createCustomer"
  /\ \E resp \in Responses("customerCreate", CustomerPayloads) :
       LET r == createCustomer(env.WAVE_BUSINESS_ID, req.body.contractData.clientName,
                               req.body.contractData.clientEmail, resp)
       IN /\ calls' = calls \o r.requests
          /\ IF r.threw /\ calls = <<>> /\ r.requests # <<>>
             THEN /\ pc' = "createCustomer"
                  /\ UNCHANGED <<res, caught, customerId>>
             ELSE IF r.threw
             THEN /\ res' = Fallback(r.error)
                  /\ caught' = [step |-> "createCustomer", error |-> r.error]
                  /\ pc' = "done"
                  /\ UNCHANGED customerId
             ELSE /\ customerId' = r.value
                  /\ pc' = "createInvoice"
                  /\ UNCHANGED <<res, caught>>
          /\ customerReply' = resp
  /\ UNCHANGED <<env, req, invoiceId, viewUrl, paymentUrl, approved, sent,
                 results, errors, attempts, invoiceReply, reply, path, result>>

\* const customerId = await createCustomer({...})
InvoiceCreateCustomer ==
  /\ req.endpoint = "invoice" /\ pc = "createCustomer"
  /\ \E resp \in Responses("customerCreate", CustomerPayloads) :
       LET r == createCustomer(env.WAVE_BUSINESS_ID, req.body.contractData.clientName,
                               req.body.contractData.clientEmail, resp)
       IN /\ calls' = calls \o r.requests
          /\ IF r.threw
             THEN /\ res' = Fallback(r.error)
                  /\ caught' = [step |-> "createCustomer", error |-> r.error]
                  /\ pc' = "done"
                  /\ UNCHANGED customerId
             ELSE /\ customerId' = r.value
                  /\ pc' = "createInvoice"
                  /\ UNCHANGED <<res, caught>>
          /\ customerReply' = resp
  /\ UNCHANGED <<env, req, invoiceId, viewUrl, paymentUrl, approved, sent,
                 results, errors, attempts, invoiceReply, reply, path, result>>

\* const { invoiceId, viewUrl } = await createInvoice({...});
\* let paymentUrl = viewUrl || null
InvoiceCreateInvoice ==
  /\ req.endpoint = "invoice" /\ pc = "createInvoice"
  /\ \E resp \in InvoiceResponses(req.body.invoice.packageKey) :
       LET r == createInvoice(env.WAVE_BUSINESS_ID, customerId,
                              req.body.invoice.packageKey, resp)
       IN /\ calls' = calls \o r.requests
          /\ IF r.threw
             THEN /\ res' = Fallback(r.error)
                  /\ caught' = [step |-> "createInvoice", error |-> r.error]
                  /\ pc' = "done"
                  /\ UNCHANGED <<invoiceId, viewUrl, paymentUrl>>
             ELSE /\ invoiceId' = r.value.invoiceId
                  /\ viewUrl' = r.value.viewUrl
                  /\ paymentUrl' = r.value.viewUrl
                  /\ pc' = "approve"
                  /\ UNCHANGED <<res, caught>>
          /\ invoiceReply' = IF r.requests = <<>> THEN NULL ELSE resp
  /\ UNCHANGED <<env, req, customerId, approved, sent, results, errors, attempts,
                 customerReply, reply, path, result>>

\* an approve step whose failure is fatal
InvoiceApprove_fatal ==
  /\ req.endpoint = "invoice" /\ pc = "approve"
  /\ \E resp \in Responses("invoiceApprove", ApprovePayloads) :
       LET r == approveInvoice(invoiceId, resp)
       IN /\ calls' = calls \o r.requests
          /\ approved' = IF r.threw THEN "failed" ELSE "ok"
          /\ IF r.threw
             THEN /\ res' = Fallback(r.error)
                  /\ caught' = [step |-> "approveInvoice", error |-> r.error]
                  /\ pc' = "done"
             ELSE pc' = "send" /\ UNCHANGED <<res, caught>>
  /\ UNCHANGED <<env, req, customerId, invoiceId, viewUrl, paymentUrl, sent,
                 results, errors, attempts, customerReply, invoiceReply, reply, path, result>>

\* try { await approveInvoice({ invoiceId }) } catch (e) { }
InvoiceApprove ==
  /\ req.endpoint = "invoice" /\ pc = "approve"
  /\ \E resp \in Responses("invoiceApprove", ApprovePayloads) :
       LET r == approveInvoice(invoiceId, resp)
       IN /\ calls' = calls \o r.requests
          /\ approved' = IF r.threw THEN "failed" ELSE "ok"
  /\ pc' = "send"
  /\ UNCHANGED <<env, req, customerId, invoiceId, viewUrl, paymentUrl, sent,
                 results, errors, attempts, res, caught, customerReply, invoiceReply, reply, path, result>>

\* try { sentUrl = await sendInvoice(...); if (sentUrl) paymentUrl = sentUrl }
\* catch (e) { }; return json(res, 200, { mode: 'live', ... })
InvoiceSend ==
  /\ req.endpoint = "invoice" /\ pc = "send"
  /\ \E resp \in Responses("invoiceSend", SendPayloads) :
       LET r == sendInvoice(invoiceId, resp)
           url == IF ~r.threw /\ TruthyStr(r.value) THEN r.value ELSE paymentUrl
       IN /\ calls' = calls \o r.requests
          /\ sent' = IF r.threw THEN [state |-> "failed"]
                     ELSE [state |-> "ok", url |-> r.value]
          /\ paymentUrl' = url
          /\ res' = json(200, [mode |-> "live", invoiceId |-> invoiceId,
                               paymentUrl |-> IF TruthyStr(url) THEN url ELSE NullStr])
  /\ pc' = "done"
  /\ UNCHANGED <<env, req, customerId, invoiceId, viewUrl, approved,
                 results, errors, attempts, caught, customerReply, invoiceReply, reply, path, result>>

----------------------------------------------------------------------------
(* Invoice endpoint: properties *)

\* a POST carrying contractData and invoice.packageKey
ValidInvoiceRequest ==
  /\ req.endpoint = "invoice" /\ req.method = "POST"
  /\ req.body # NULL /\ req.body.contractData # NULL /\ req.body.invoice # NULL
  /\ req.body.invoice.packageKey # ""

Configured == env.WAVE_API_KEY = "key" /\ env.WAVE_BUSINESS_ID = "biz"

Answered(mode) ==
  /\ pc = "done" /\ "mode" \in DOMAIN res.body /\ res.body.mode = mode

\* the service reported success for the operation: a successful status, no
\* top-level errors, didSucceed true and the created object present
ReplySucceeded(resp, field, obj) ==
  /\ resp.kind = "json" /\ resp.ok /\ resp.errors = NULL
  /\ resp.data # NULL /\ resp.data[field] # NULL
  /\ resp.data[field].didSucceed /\ resp.data[field][obj] # NULL

\* the structured error list the service supplied with a failure, if any:
\* the top-level errors array, or the inputErrors of a failed operation
SuppliedErrors(resp, field) ==
  IF resp.kind # "json" THEN NULL
  ELSE IF resp.errors # NULL /\ Len(resp.errors.items) > 0 THEN resp.errors
  ELSE IF /\ resp.data # NULL /\ resp.data[field] # NULL
          /\ ~resp.data[field].didSucceed
          /\ resp.data[field].inputErrors # NULL
          /\ Len(resp.data[field].inputErrors.items) > 0
  THEN resp.data[field].inputErrors
  ELSE NULL

\* C1: a POST with contractData and invoice.packageKey, handled while the API
\* key or the business identifier is not configured, is answered 200 in demo
\* mode with the placeholder URL, and never issues an external call.
C1_DemoWithoutCalls ==
  (ValidInvoiceRequest /\ (env.WAVE_API_KEY = "" \/ env.WAVE_BUSINESS_ID = "")) =>
    /\ calls = <<>>
    /\ pc \in {"start", "done"}
    /\ pc = "done" =>
         /\ res.statusCode = 200
         /\ "mode" \in DOMAIN res.body /\ res.body.mode = "demo"
         /\ res.body.paymentUrl = DEMO_URL

C1_Witness ==
  /\ ValidInvoiceRequest /\ env.WAVE_API_KEY = "key" /\ env.WAVE_BUSINESS_ID = ""
  /\ Answered("demo") /\ calls = <<>>

UnknownPackageKey == req.body.invoice.packageKey \notin DOMAIN PACKAGE_CATALOG

NoProductIdConfigured ==
  /\ req.body.invoice.packageKey \in DOMAIN PACKAGE_CATALOG
  /\ env.WAVE_PRODUCT_ID = ""
  /\ req.body.invoice.packageKey = "core" => env.WAVE_PRODUCT_ID_CORE = ""
  /\ req.body.invoice.packageKey = "growth" => env.WAVE_PRODUCT_ID_GROWTH = ""
  /\ req.body.invoice.packageKey = "full" => env.WAVE_PRODUCT_ID_FULL = ""

\* a fatal step of the workflow failed: the package key is not in the
\* catalog, no product identifier is configured for it, or the service
\* did not report a created customer / a created invoice
FatalStepFailed ==
  /\ ValidInvoiceRequest /\ Configured
  /\ \/ UnknownPackageKey
     \/ NoProductIdConfigured
     \/ customerReply # NULL /\ ~ReplySucceeded(customerReply, "customerCreate", "customer")
     \/ invoiceReply # NULL /\ ~ReplySucceeded(invoiceReply, "invoiceCreate", "invoice")

BestUrl ==
  LET view == invoiceReply.data.invoiceCreate.invoice.viewUrl IN
  IF sent.state = "ok" /\ sent.url \notin {NullStr, ""} THEN sent.url
  ELSE IF view \notin {NullStr, ""} THEN view
  ELSE NullStr

BothCreated ==
  /\ ValidInvoiceRequest /\ Configured
  /\ customerReply # NULL /\ ReplySucceeded(customerReply, "customerCreate", "customer")
  /\ invoiceReply # NULL /\ ReplySucceeded(invoiceReply, "invoiceCreate", "invoice")

C2_WitnessCustomer ==
  /\ pc = "done" /\ FatalStepFailed /\ req.body.invoice.packageKey = "core"
  /\ customerReply # NULL /\ customerReply.kind = "json" /\ customerReply.data # NULL
  /\ customerReply.data.customerCreate # NULL
  /\ ~customerReply.data.customerCreate.didSucceed
  /\ Answered("fallback") /\ res.body.error = "Create customer failed: Invalid email"

\* C3: once customer and invoice creation have both succeeded, the finished
\* request is answered in live mode with the created invoiceId whatever
\* approval and sending did, a failed approval is still followed by a send
\* request, and paymentUrl is the URL send returned, else the invoice's view
\* URL, else null.
C3_LiveOnceInvoiceCreated ==
  (pc = "done" /\ BothCreated) =>
    /\ res = json(200, [mode |-> "live",
                        invoiceId |-> invoiceReply.data.invoiceCreate.invoice.id,
                        paymentUrl |-> BestUrl])
    /\ approved # "pending" /\ sent.state # "pending"
    /\ Len(calls) = 4 /\ calls[3].op = "invoiceApprove" /\ calls[4].op = "invoiceSend"

C3_Witness ==
  /\ pc = "done" /\ BothCreated /\ approved = "failed"
  /\ sent.state = "failed"
  /\ invoiceReply.data.invoiceCreate.invoice.viewUrl = "https://wave/view"
  /\ Answered("live") /\ res.body.paymentUrl = "https://wave/view"

C3_WitnessSent ==
  /\ pc = "done" /\ BothCreated /\ approved = "failed"
  /\ sent.state = "ok" /\ sent.url = "https://wave/sent"
  /\ Answered("live") /\ res.body.paymentUrl = "https://wave/sent"

MissingFields ==
  \/ req.body = NULL
  \/ req.body.contractData = NULL
  \/ req.body.invoice = NULL
  \/ req.body.invoice.packageKey = ""

\* C4: the status of a finished invoice request is 405 exactly when the method
\* is not POST, 400 exactly when it is POST with contractData, invoice or
\* invoice.packageKey missing, and 200 in every other case.
C4_StatusCodes ==
  (req.endpoint = "invoice" /\ pc = "done") =>
    /\ res.statusCode \in {200, 400, 405}
    /\ res.statusCode = 405 <=> req.method # "POST"
    /\ res.statusCode = 400 <=> (req.method = "POST" /\ MissingFields)
    /\ res.statusCode = 200 <=> (req.method = "POST" /\ ~MissingFields)

C4_Witness ==
  /\ req.endpoint = "invoice" /\ Answered("fallback") /\ res.statusCode = 200
  /\ caught # NULL /\ caught.step = "createInvoice"
  /\ invoiceReply # NULL /\ invoiceReply.kind = "json" /\ ~invoiceReply.ok

\* the reply behind the caught error, when an external call failed
FailedReply ==
  IF caught = NULL THEN NULL
  ELSE IF caught.step = "createCustomer" THEN customerReply
  ELSE invoiceReply

FailedField == IF caught # NULL /\ caught.step = "createCustomer"
               THEN "customerCreate" ELSE "invoiceCreate"

\* C5: a fallback response caused by a failed external call carries in
\* errorDetails the structured error list the service supplied, for
\* top-level errors and for inputErrors of a failed operation alike.
C5_ErrorDetailsPreserved ==
  (/\ req.endpoint = "invoice" /\ Answered("fallback")
   /\ FailedReply # NULL
   /\ SuppliedErrors(FailedReply, FailedField) # NULL) =>
    res.body.errorDetails = SuppliedErrors(FailedReply, FailedField)

\* C6: a request whose package key is not in the catalog, or for which no
\* product identifier is configured, issues no external call at all.
C6_ValidatedBeforeCustomer ==
  (/\ ValidInvoiceRequest /\ Configured
   /\ UnknownPackageKey \/ NoProductIdConfigured) =>
    calls = <<>>

\* the invoice-create requests issued so far
InvoiceCreateCalls ==
  IF req.endpoint # "invoice" THEN {}
  ELSE {calls[i] : i \in {j \in DOMAIN calls : calls[j].op = "invoiceCreate"}}

\* C12: for every catalog package key the line item of the invoice-create
\* request has quantity 1 and a unit price of exactly half the catalog price
\* (2500, 3750, 5000: round(price * 0.5 * 100) / 100), whatever amount the
\* request carried.
C12_DepositIsHalfCatalogPrice ==
  \A c \in InvoiceCreateCalls :
    LET key == req.body.invoice.packageKey IN
    key \in DOMAIN PACKAGE_CATALOG =>
      /\ PACKAGE_CATALOG[key].price % 2 = 0
      /\ c.input.unitPrice = ToString(PACKAGE_CATALOG[key].price \div 2)
      /\ c.input.unitPrice = [core |-> "2500", growth |-> "3750", full |-> "5000"][key]
      /\ c.input.quantity = 1

C12_Witness ==
  /\ req.endpoint = "invoice" /\ pc = "done"
  /\ \E c \in InvoiceCreateCalls : c.input.unitPrice = "3750" /\ c.input.quantity = 1
  /\ req.body.invoice.packageKey = "growth" /\ req.body.invoice.amount = 999

C12_WitnessCore ==
  /\ req.endpoint = "invoice" /\ pc = "done"
  /\ \E c \in InvoiceCreateCalls : c.input.unitPrice = "2500"
  /\ req.body.invoice.packageKey = "core" /\ req.body.invoice.amount = 1

\* the order in which the workflow issues its external operations
WorkflowOrder == <<"customerCreate", "invoiceCreate", "invoiceApprove", "invoiceSend">>

\* C13: within one invoice request the external operations are issued one at
\* a time in the order customer create, invoice create, approve, send, each at
\* most once; invoice create only after customer create succeeded, approve and
\* send only after invoice create succeeded, send only after approve was
\* answered; so at most four calls are issued.
C13_CallsInSequence ==
  req.endpoint = "invoice" =>
    /\ Len(calls) <= 4
    /\ \A i \in DOMAIN calls : calls[i].op = WorkflowOrder[i]
    /\ Len(calls) >= 1 => customerReply # NULL
    /\ Len(calls) >= 2 =>
         /\ ReplySucceeded(customerReply, "customerCreate", "customer")
         /\ invoiceReply # NULL
    /\ Len(calls) >= 3 => ReplySucceeded(invoiceReply, "invoiceCreate", "invoice")
    /\ Len(calls) >= 4 => approved # "pending"
    /\ pc = "send" => Len(calls) = 3
    /\ pc = "approve" => Len(calls) = 2
    /\ pc = "createInvoice" => Len(calls) = 1
    /\ pc = "createCustomer" => Len(calls) = 0

C13_Witness ==
  /\ req.endpoint = "invoice" /\ pc = "done"
  /\ Len(calls) = 4 /\ calls[4].op = "invoiceSend"
  /\ approved = "ok" /\ sent.state = "ok"

C13_WitnessNoRetry ==
  /\ req.endpoint = "invoice" /\ pc = "done"
  /\ Len(calls) = 1 /\ calls[1].op = "customerCreate"
  /\ customerReply # NULL /\ customerReply.kind = "reject"
  /\ Answered("fallback")

C13_WitnessInvoiceFailed ==
  /\ req.endpoint = "invoice" /\ pc = "done"
  /\ Len(calls) = 2 /\ calls[2].op = "invoiceCreate"
  /\ invoiceReply # NULL /\ ~ReplySucceeded(invoiceReply, "invoiceCreate", "invoice")
  /\ Answered("fallback")

\* the per-package product identifier setting of a catalog key
PerPackageSetting(key) ==
  [core |-> env.WAVE_PRODUCT_ID_CORE, growth |-> env.WAVE_PRODUCT_ID_GROWTH,
   full |-> env.WAVE_PRODUCT_ID_FULL][key]

\* the invoice step ran: customer creation returned an identifier
InvoiceStepRan ==
  /\ customerReply # NULL
  /\ ReplySucceeded(customerReply, "customerCreate", "customer")
  /\ pc \in {"approve", "send", "done"}

\* C14: for a catalog package key the productId of the invoice-create line
\* item is the per-package identifier when it is set, else the generic
\* WAVE_PRODUCT_ID; when neither is set the invoice step issues no
\* invoice-create call and the request is answered in fallback mode with the
\* error 'Missing WAVE_PRODUCT_ID' and the guidance message in errorDetails.
C14_ProductIdResolution ==
  (/\ ValidInvoiceRequest /\ Configured
   /\ req.body.invoice.packageKey \in DOMAIN PACKAGE_CATALOG) =>
    LET per == PerPackageSetting(req.body.invoice.packageKey)
        generic == env.WAVE_PRODUCT_ID
    IN /\ \A c \in InvoiceCreateCalls :
            /\ per # "" => c.input.productId = per
            /\ (per = "" /\ generic # "") => c.input.productId = generic
            /\ per # "" \/ generic # ""
       /\ (per = "" /\ generic = "" /\ InvoiceStepRan) =>
            /\ InvoiceCreateCalls = {} /\ Len(calls) = 1 /\ pc = "done"
            /\ res.statusCode = 200
            /\ "mode" \in DOMAIN res.body /\ res.body.mode = "fallback"
            /\ res.body.error = "Missing WAVE_PRODUCT_ID"
            /\ res.body.errorDetails = Arr(<<[message |->
                 "Set WAVE_PRODUCT_ID_<PACKAGE> (CORE/GROWTH/FULL) or WAVE_PRODUCT_ID to a valid Product ID in your Wave business."]>>)
       /\ ((per # "" \/ generic # "") /\ InvoiceStepRan) => InvoiceCreateCalls # {}

C14_Witness ==
  /\ ValidInvoiceRequest /\ Configured /\ pc = "done"
  /\ req.body.invoice.packageKey = "growth"
  /\ env.WAVE_PRODUCT_ID_GROWTH = "prod_growth" /\ env.WAVE_PRODUCT_ID = "prod_generic"
  /\ \E c \in InvoiceCreateCalls : c.input.productId = "prod_growth"

C14_WitnessGeneric ==
  /\ ValidInvoiceRequest /\ Configured /\ pc = "done"
  /\ req.body.invoice.packageKey = "full"
  /\ env.WAVE_PRODUCT_ID_FULL = "" /\ env.WAVE_PRODUCT_ID = "prod_generic"
  /\ \E c \in InvoiceCreateCalls : c.input.productId = "prod_generic"

C14_WitnessMissing ==
  /\ ValidInvoiceRequest /\ Configured /\ pc = "done"
  /\ req.body.invoice.packageKey = "core"
  /\ env.WAVE_PRODUCT_ID_CORE = "" /\ env.WAVE_PRODUCT_ID = ""
  /\ InvoiceStepRan /\ InvoiceCreateCalls = {}
  /\ Answered("fallback") /\ res.body.error = "Missing WAVE_PRODUCT_ID"
  /\ res.body.errorDetails # NULL

----------------------------------------------------------------------------
(* Product provisioning handlers (create-products, both variants) *)

PACKAGES ==
  [core   |-> [name |-> "Core System Package",
               description |-> "Core web + booking + analytics foundation",
               price |-> 5000],
   growth |-> [name |-> "Growth Accelerator Package",
               description |-> "Adds learning hub, resources, community, automation",
               price |-> 7500],
   full   |-> [name |-> "Full Ecosystem Package",
               description |-> "Complete system with dashboard, portal, workflows, advanced analytics",
               price |-> 10000]]

ProductPayloads ==
  [didSucceed : BOOLEAN, inputErrors : ErrorsField,
   product : {NULL, [id |-> "prod_new", name |-> "created"]}]

\* waveQuery of the provisioning functions: a missing key carries guidance
waveQueryProducts(op, input, resp) ==
  IF ~TruthyStr(env.WAVE_API_KEY)
  THEN Throw("Missing WAVE_API_KEY",
             Arr(<<[message |-> "Set WAVE_API_KEY in your deployment environment."]>>),
             <<>>)
  ELSE LET request == <<[op |-> op, input |-> input]>> IN
       IF resp.kind = "reject"
       THEN Throw("fetch failed", NULL, request)
       ELSE IF ~resp.ok \/ TruthyObj(resp.errors)
       THEN LET msg == IF TruthyObj(resp.errors) THEN Stringify(resp.errors)
                       ELSE StatusText(resp)
            IN Throw("Wave GraphQL error: " \o msg, resp.errors, request)
       ELSE Return(resp.data, request)

\* the part of createProduct after the query, the same in both variants
ProductCreated(q) ==
  IF q.threw THEN q
  ELSE IF q.value = NULL THEN Throw(TypeErrorMessage, NULL, q.requests)
  ELSE LET r == q.value.productCreate IN
       IF ~TruthyObj(r) \/ ~r.didSucceed \/ ~TruthyObj(r.product)
       THEN Throw(FirstErrMessage(r, "Unknown error creating product"),
                  IF TruthyObj(r) /\ TruthyObj(r.inputErrors) THEN r.inputErrors ELSE NULL,
                  q.requests)
       ELSE Return(r.product, q.requests)

\* createProduct of the minimal variant
createProductMinimal(businessId, name, description, resp) ==
  ProductCreated(waveQueryProducts("productCreate",
    [businessId |-> businessId, name |-> name, description |-> description,
     isSold |-> TRUE], resp))

\* createProduct of the income-account variant
createProduct(businessId, name, description, unitPrice, incomeAccountId, resp) ==
  ProductCreated(waveQueryProducts("productCreate",
    [businessId |-> businessId, name |-> name, description |-> description,
     unitPrice |-> ToString(unitPrice), incomeAccountId |-> incomeAccountId], resp))

ProvisionRequests ==
  [endpoint : {"create-products"}, method : {"GET", "POST"},
   query : {NULL, [create |-> "1"], [create |-> "true"], [create |-> "0"]}]
  \cup [endpoint : {"create-products-minimal"}, method : {"GET", "POST"}, query : {NULL}]

ProvisionEnv ==
  EnvReading({"WAVE_API_KEY", "WAVE_BUSINESS_ID", "WAVE_INCOME_ACCOUNT_ID"})
ProvisionMinimalEnv == EnvReading({"WAVE_API_KEY", "WAVE_BUSINESS_ID"})

ProvisionResponse(rs, es) ==
  json(200, [didSucceed |-> DOMAIN es = {},
             products |-> rs,
             errors |-> es,
             envHints |->
               [WAVE_PRODUCT_ID_CORE |-> IF "core" \in DOMAIN rs THEN rs.core.id ELSE NullStr,
                WAVE_PRODUCT_ID_GROWTH |-> IF "growth" \in DOMAIN rs THEN rs.growth.id ELSE NullStr,
                WAVE_PRODUCT_ID_FULL |-> IF "full" \in DOMAIN rs THEN rs.full.id ELSE NullStr]])

\* a loop that gives up at the first package whose creation fails
ProvisionLoop_stop(key, r) ==
  LET rs == IF r.threw THEN results ELSE results @@ (key :> r.value)
      es == IF r.threw
            THEN errors @@ (key :> [message |-> r.error.message,
                                    details |-> r.error.waveErrors])
            ELSE errors
  IN /\ attempts' = Append(attempts, key)
     /\ calls' = calls \o r.requests
     /\ results' = rs
     /\ errors' = es
     /\ IF r.threw \/ Len(attempts) + 1 = Len(PackageOrder)
        THEN res' = ProvisionResponse(rs, es) /\ pc' = "done"
        ELSE res' = res /\ pc' = pc

\* one iteration of  for (const key of Object.keys(PACKAGES)) { try ... catch ... }
\* and, after the last one, the response
ProvisionLoop(key, r) ==
  LET rs == IF r.threw THEN results ELSE results @@ (key :> r.value)
      es == IF r.threw
            THEN errors @@ (key :> [message |-> r.error.message,
                                    details |-> r.error.waveErrors])
            ELSE errors
  IN /\ attempts' = Append(attempts, key)
     /\ calls' = calls \o r.requests
     /\ results' = rs
     /\ errors' = es
     /\ IF Len(attempts) + 1 = Len(PackageOrder)
        THEN res' = ProvisionResponse(rs, es) /\ pc' = "done"
        ELSE res' = res /\ pc' = pc

\* minimal variant: method check, business identifier check
ProvisionMinimalStart ==
  /\ req.endpoint = "create-products-minimal" /\ pc = "start"
  /\ IF req.method # "POST"
     THEN res' = json(405, [error |-> "Method not allowed"]) /\ pc' = "done"
     ELSE IF ~TruthyStr(env.WAVE_BUSINESS_ID)
     THEN /\ res' = json(200, [error |-> "Missing WAVE_BUSINESS_ID",
                               note |-> "Set WAVE_BUSINESS_ID, then re-run to create products."])
          /\ pc' = "done"
     ELSE res' = res /\ pc' = "create"
  /\ UNCHANGED <<env, req, calls, invoiceVars, provisionVars, caught, reply, path, result>>

ProvisionMinimalCreate ==
  /\ req.endpoint = "create-products-minimal" /\ pc = "create"
  /\ LET key == PackageOrder[Len(attempts) + 1] IN
     \E resp \in Responses("productCreate", ProductPayloads) :
       ProvisionLoop(key, createProductMinimal(env.WAVE_BUSINESS_ID, PACKAGES[key].name,
                                               PACKAGES[key].description, resp))
  /\ UNCHANGED <<env, req, invoiceVars, caught, reply, path, result>>

\* req.method === 'GET' && req.query && (create === '1' || create === 'true')
IsGetConfirmed ==
  /\ req.method = "GET" /\ TruthyObj(req.query)
  /\ req.query.create = "1" \/ req.query.create = "true"

\* income-account variant: method check, business and income account checks
ProvisionStart ==
  /\ req.endpoint = "create-products" /\ pc = "start"
  /\ IF req.method # "POST" /\ ~IsGetConfirmed
     THEN /\ res' = json(405, [error |-> "Method not allowed. Use POST or GET with ?create=1"])
          /\ pc' = "done"
     ELSE IF ~TruthyStr(env.WAVE_BUSINESS_ID)
     THEN /\ res' = json(200, [error |-> "Missing WAVE_BUSINESS_ID",
                               note |-> "Set WAVE_BUSINESS_ID, then re-run to create products."])
          /\ pc' = "done"
     ELSE IF ~TruthyStr(env.WAVE_INCOME_ACCOUNT_ID)
     THEN /\ res' = json(200, [error |-> "Missing WAVE_INCOME_ACCOUNT_ID",
                               note |-> "Set WAVE_INCOME_ACCOUNT_ID to a valid Income account ID (e.g., Sales/Service Income) from your Chart of Accounts."])
          /\ pc' = "done"
     ELSE res' = res /\ pc' = "create"
  /\ UNCHANGED <<env, req, calls, invoiceVars, provisionVars, caught, reply, path, result>>

ProvisionCreate ==
  /\ req.endpoint = "create-products" /\ pc = "create"
  /\ LET key == PackageOrder[Len(attempts) + 1] IN
     \E resp \in Responses("productCreate", ProductPayloads) :
       ProvisionLoop(key, createProduct(env.WAVE_BUSINESS_ID, PACKAGES[key].name,
                                        PACKAGES[key].description, PACKAGES[key].price,
                                        env.WAVE_INCOME_ACCOUNT_ID, resp))
  /\ UNCHANGED <<env, req, invoiceVars, caught, reply, path, result>>

----------------------------------------------------------------------------
(* Product provisioning: properties *)

\* the method and configuration checks of the variant being run pass
ProvisionChecksPass ==
  \/ /\ req.endpoint = "create-products-minimal"
     /\ req.method = "POST" /\ env.WAVE_BUSINESS_ID # ""
  \/ /\ req.endpoint = "create-products"
     /\ \/ req.method = "POST"
        \/ req.method = "GET" /\ req.query # NULL /\ req.query.create \in {"1", "true"}
     /\ env.WAVE_BUSINESS_ID # "" /\ env.WAVE_INCOME_ACCOUNT_ID # ""

AllPackages == {"core", "growth", "full"}

\* C9: once the method and configuration checks pass, creation is attempted
\* exactly once per package, in order, whatever the other attempts did; the
\* response is 200, every package key is in exactly one of products and
\* errors, and didSucceed is true exactly when errors is empty.
C9_EveryPackageAttemptedOnce ==
  ProvisionChecksPass =>
    /\ Len(attempts) <= 3
    /\ \A i \in 1..Len(attempts) : attempts[i] = <<"core", "growth", "full">>[i]
    /\ pc = "done" =>
         /\ attempts = <<"core", "growth", "full">>
         /\ env.WAVE_API_KEY # "" =>
              /\ Len(calls) = 3
              /\ \A i \in 1..3 : calls[i].op = "productCreate"
         /\ res.statusCode = 200
         /\ DOMAIN res.body.products \cup DOMAIN res.body.errors = AllPackages
         /\ DOMAIN res.body.products \cap DOMAIN res.body.errors = {}
         /\ res.body.didSucceed <=> (DOMAIN res.body.errors = {})

C9_Witness ==
  /\ ProvisionChecksPass /\ pc = "done"
  /\ DOMAIN res.body.errors = {"core"}
  /\ DOMAIN res.body.products = {"growth", "full"}
  /\ ~res.body.didSucceed

C9_WitnessAllFail ==
  /\ ProvisionChecksPass /\ pc = "done" /\ env.WAVE_API_KEY = ""
  /\ DOMAIN res.body.errors = AllPackages /\ calls = <<>>

----------------------------------------------------------------------------
(* Listing handlers: list-accounts, list-products, business discovery *)

\* text that is searched or rewritten character by character is a sequence
\* of one-character strings
LowerLetters == <<"a", "b", "c", "d", "e", "f", "g", "h", "i", "j", "k", "l", "m", "n", "o", "p", "q", "r", "s", "t", "u", "v", "w", "x", "y", "z">>
UpperLetters == <<"A", "B", "C", "D", "E", "F", "G", "H", "I", "J", "K", "L", "M", "N", "O", "P", "Q", "R", "S", "T", "U", "V", "W", "X", "Y", "Z">>
Digits == <<"0", "1", "2", "3", "4", "5", "6", "7", "8", "9">>

Range(f) == {f[i] : i \in DOMAIN f}

\* toLowerCase() of one character
LowerChar(c) ==
  IF c \in Range(UpperLetters)
  THEN LowerLetters[CHOOSE i \in DOMAIN UpperLetters : UpperLetters[i] = c]
  ELSE c

\* String.prototype.toLowerCase
toLowerCase(str) == [i \in DOMAIN str |-> LowerChar(str[i])]

\* String.prototype.includes
includes(str, q) ==
  \E i \in 0..(Len(str) - Len(q)) : SubSeq(str, i + 1, i + Len(q)) = q

\* waveQuery of the listing functions: errors carry a message only
waveQueryList(op, input, resp) ==
  IF ~TruthyStr(env.WAVE_API_KEY)
  THEN Throw("Missing WAVE_API_KEY", NULL, <<>>)
  ELSE LET request == <<[op |-> op, input |-> input]>> IN
       IF resp.kind = "reject"
       THEN Throw("fetch failed", NULL, request)
       ELSE IF ~resp.ok \/ TruthyObj(resp.errors)
       THEN LET msg == IF TruthyObj(resp.errors) THEN Stringify(resp.errors)
                       ELSE StatusText(resp)
            IN Throw("Wave GraphQL error: " \o msg, NULL, request)
       ELSE Return(resp.data, request)

Edges(nodes) ==
  {NULL} \cup {Arr(l) : l \in UNION {[1..n -> [node : nodes]] : n \in 0..MaxEdges}}

AccountNodes ==
  {[id |-> "acc_1", name |-> "Sales", type |-> "INCOME", subtype |-> "INCOME"],
   [id |-> "acc_2", name |-> "Cash", type |-> "ASSET", subtype |-> "CASH_AND_BANK"]}

ProductNodes ==
  {[id |-> "p1", name |-> <<"C", "o", "r", "e">>],
   [id |-> "p2", name |-> <<"c", "o", "r", "e", " ", "k", "i", "t">>],
   [id |-> "p3", name |-> <<"G", "r", "o", "w", "t", "h">>],
   [id |-> "p4"]}

BusinessNodes ==
  {[id |-> "biz", name |-> "Acme", isClassicAccounting |-> FALSE,
    isClassicInvoicing |-> FALSE]}

AccountsPayloads ==
  [id : {"biz"}, name : {"Acme"}, accounts : {NULL} \cup [edges : Edges(AccountNodes)]]
ProductsPayloads ==
  [id : {"biz"}, name : {"Acme"}, products : {NULL} \cup [edges : Edges(ProductNodes)]]
BusinessesPayloads == [edges : Edges(BusinessNodes)]

Queries == {<<>>, <<"c", "o", "r", "e">>, <<"C", "O", "R", "E">>, <<"r", "o">>, <<"x">>}

ListingRequests ==
  [endpoint : {"list-accounts", "test-business-id"}, method : {"GET"}, query : {NULL}]
  \cup [endpoint : {"list-products"}, method : {"GET"},
        query : {NULL} \cup [q : Queries]]

ListingEnv == EnvReading({"WAVE_API_KEY", "WAVE_BUSINESS_ID"})
DiscoveryEnv == EnvReading({"WAVE_API_KEY"})

\* edges.map(e => e.node)
Nodes(edges) == [i \in DOMAIN edges |-> edges[i].node]

\* a filter that compares the name as written, without lower-casing it
RECURSIVE Filter_caseSensitive(_, _)
Filter_caseSensitive(list, q) ==
  IF list = <<>> THEN <<>>
  ELSE LET p == Head(list)
           name == IF "name" \in DOMAIN p THEN p.name ELSE <<>>
       IN (IF includes(name, q) THEN <<p>> ELSE <<>>)
          \o Filter_caseSensitive(Tail(list), q)

\* Array.prototype.filter
RECURSIVE Filter(_, _)
Filter(list, q) ==
  IF list = <<>> THEN <<>>
  ELSE LET p == Head(list)
           name == IF "name" \in DOMAIN p THEN p.name ELSE <<>>
       IN (IF includes(toLowerCase(name), q) THEN <<p>> ELSE <<>>) \o Filter(Tail(list), q)

\* the list-accounts handler body after the business identifier check
AccountsResult(q) ==
  IF q.threw THEN json(200, [error |-> q.error.message])
  ELSE IF q.value = NULL \/ q.value.business = NULL
  THEN json(200, [error |-> TypeErrorMessage])
  ELSE LET business == q.value.business
           accounts == IF TruthyObj(business.accounts) /\ TruthyObj(business.accounts.edges)
                       THEN business.accounts.edges.items ELSE <<>>
       IN json(200, [business |-> [id |-> business.id, name |-> business.name],
                     count |-> Len(accounts),
                     accounts |-> Nodes(accounts)])

ListAccounts ==
  /\ req.endpoint = "list-accounts" /\ pc = "start"
  /\ IF ~TruthyStr(env.WAVE_BUSINESS_ID)
     THEN /\ res' = json(200, [error |-> "Missing WAVE_BUSINESS_ID"])
          /\ UNCHANGED <<calls, reply>>
     ELSE \E resp \in Responses("business", AccountsPayloads) :
            LET q == waveQueryList("Accounts", [id |-> env.WAVE_BUSINESS_ID], resp)
            IN /\ calls' = calls \o q.requests
               /\ reply' = IF q.requests = <<>> THEN NULL ELSE resp
               /\ res' = AccountsResult(q)
  /\ pc' = "done"
  /\ UNCHANGED <<env, req, invoiceVars, provisionVars, caught, path, result>>

\* (req.query && req.query.q) ? String(req.query.q).toLowerCase() : ''
QueryOf(r) ==
  IF TruthyObj(r.query) /\ r.query.q # <<>> THEN toLowerCase(r.query.q) ELSE <<>>

\* the list-products handler body after the business identifier check
ProductsResult(q, r) ==
  IF q.threw THEN json(200, [error |-> q.error.message])
  ELSE IF q.value = NULL \/ q.value.business = NULL
  THEN json(200, [error |-> TypeErrorMessage])
  ELSE LET business == q.value.business
           edges == IF TruthyObj(business.products) /\ TruthyObj(business.products.edges)
                    THEN business.products.edges.items ELSE <<>>
           all == Nodes(edges)
           filtered == IF QueryOf(r) # <<>> THEN Filter(all, QueryOf(r)) ELSE all
       IN json(200, [business |-> [id |-> business.id, name |-> business.name],
                     count |-> Len(filtered),
                     products |-> filtered])

ListProducts ==
  /\ req.endpoint = "list-products" /\ pc = "start"
  /\ IF ~TruthyStr(env.WAVE_BUSINESS_ID)
     THEN /\ res' = json(200, [error |-> "Missing WAVE_BUSINESS_ID"])
          /\ UNCHANGED <<calls, reply>>
     ELSE \E resp \in Responses("business", ProductsPayloads) :
            LET q == waveQueryList("Products", [id |-> env.WAVE_BUSINESS_ID], resp)
            IN /\ calls' = calls \o q.requests
               /\ reply' = IF q.requests = <<>> THEN NULL ELSE resp
               /\ res' = ProductsResult(q, req)
  /\ pc' = "done"
  /\ UNCHANGED <<env, req, invoiceVars, provisionVars, caught, path, result>>

\* getBusinesses: data.businesses.edges.map(edge => edge.node)
getBusinesses(resp) ==
  LET q == waveQueryList("businesses", NULL, resp) IN
  IF q.threw THEN q
  ELSE IF q.value = NULL \/ q.value.businesses = NULL \/ q.value.businesses.edges = NULL
  THEN Throw(TypeErrorMessage, NULL, q.requests)
  ELSE Return(Nodes(q.value.businesses.edges.items), q.requests)

\* the business discovery handler
TestBusinessId ==
  /\ req.endpoint = "test-business-id" /\ pc = "start"
  /\ \E resp \in Responses("businesses", BusinessesPayloads) :
       LET r == getBusinesses(resp)
       IN /\ calls' = calls \o r.requests
          /\ reply' = IF r.requests = <<>> THEN NULL ELSE resp
          /\ res' = IF r.threw THEN json(500, [error |-> r.error.message])
                    ELSE json(200, [businesses |-> r.value])
  /\ pc' = "done"
  /\ UNCHANGED <<env, req, invoiceVars, provisionVars, caught, path, result>>

----------------------------------------------------------------------------
(* Listing handlers: properties *)

ListingEndpoints == {"list-accounts", "list-products", "test-business-id"}

\* the reply is a transport failure, carries GraphQL errors, or lacks the
\* payload the handler reads
BadReply(resp, field) ==
  \/ resp.kind = "reject"
  \/ ~resp.ok
  \/ resp.errors # NULL
  \/ resp.data = NULL
  \/ resp.data[field] = NULL
  \/ field = "businesses" /\ resp.data[field].edges = NULL

\* a listing request failed: a setting it needs is missing, or the reply is bad
ListingFailed ==
  \/ env.WAVE_API_KEY = ""
  \/ req.endpoint # "test-business-id" /\ env.WAVE_BUSINESS_ID = ""
  \/ reply # NULL /\ BadReply(reply, IF req.endpoint = "test-business-id"
                                     THEN "businesses" ELSE "business")

\* C8: every finished listing request (accounts, products, business
\* discovery) is answered with HTTP 200, and with an error field whenever it
\* failed.
C8_ListingFailuresAre200 ==
  (req.endpoint \in ListingEndpoints /\ pc = "done") =>
    /\ res.statusCode = 200
    /\ ListingFailed => "error" \in DOMAIN res.body

\* two characters equal up to letter case
SameLetter(a, b) ==
  \/ a = b
  \/ \E i \in DOMAIN LowerLetters :
       {a, b} = {LowerLetters[i], UpperLetters[i]}

\* q occurs in name when case is ignored
ContainsIgnoringCase(name, q) ==
  \E i \in 0..(Len(name) - Len(q)) :
    \A j \in 1..Len(q) : SameLetter(name[i + j], q[j])

\* a listing request answered with a list
ListingSucceeded ==
  /\ req.endpoint \in {"list-accounts", "list-products"} /\ pc = "done"
  /\ "count" \in DOMAIN res.body

\* the nodes the service returned, in the order it returned them
ReturnedNodes(field) ==
  LET container == reply.data.business[field] IN
  IF container = NULL \/ container.edges = NULL THEN <<>>
  ELSE [i \in DOMAIN container.edges.items |-> container.edges.items[i].node]

\* the q parameter of the request, empty when absent
RequestedQ == IF req.query = NULL THEN <<>> ELSE req.query.q

\* C11: a successful listing response has count equal to the length of the
\* returned list; list-products with a non-empty q returns exactly the
\* products, in their original order, whose name contains q ignoring case (a
\* product without a name never matches), and all products when q is absent
\* or empty.
C11_CountAndFilter ==
  ListingSucceeded =>
    IF req.endpoint = "list-accounts"
    THEN /\ res.body.count = Len(res.body.accounts)
         /\ res.body.accounts = ReturnedNodes("accounts")
    ELSE LET all == ReturnedNodes("products")
             Matches(p) == "name" \in DOMAIN p /\ ContainsIgnoringCase(p.name, RequestedQ)
         IN /\ res.body.count = Len(res.body.products)
            /\ res.body.products =
                 IF RequestedQ = <<>> THEN all ELSE SelectSeq(all, Matches)

C11_Witness ==
  /\ ListingSucceeded /\ req.endpoint = "list-products"
  /\ RequestedQ = <<"C", "O", "R", "E">>
  /\ Len(ReturnedNodes("products")) = 2
  /\ ReturnedNodes("products")[1].id = "p4"
  /\ ReturnedNodes("products")[2].id = "p1"
  /\ res.body.count = 1 /\ res.body.products[1].id = "p1"

C11_WitnessAll ==
  /\ ListingSucceeded /\ req.endpoint = "list-products"
  /\ RequestedQ = <<>> /\ res.body.count = 2

----------------------------------------------------------------------------
(* Contract upload handler (upload-contract) *)

\* the characters the class [a-zA-Z0-9._-] admits
AllowedChars ==
  Range(LowerLetters) \cup Range(UpperLetters) \cup Range(Digits) \cup {".", "_", "-"}

\* a sanitizer that drops the characters outside the class
RECURSIVE safeFile_strip(_)
safeFile_strip(filename) ==
  IF filename = <<>> THEN <<>>
  ELSE (IF Head(filename) \in AllowedChars THEN <<Head(filename)>> ELSE <<>>)
       \o safeFile_strip(Tail(filename))

\* filename.replace(/[^a-zA-Z0-9._-]/g, '_')
RECURSIVE safeFile(_)
safeFile(filename) ==
  IF filename = <<>> THEN <<>>
  ELSE <<IF Head(filename) \in AllowedChars THEN Head(filename) ELSE "_">>
       \o safeFile(Tail(filename))

ContractsDir == <<"c", "o", "n", "t", "r", "a", "c", "t", "s", "/">>

\* `contracts/${safeFile}`
PathOf(filename) == ContractsDir \o safeFile(filename)

\* a character sequence as one string
RECURSIVE Join(_)
Join(chars) == IF chars = <<>> THEN "" ELSE Head(chars) \o Join(Tail(chars))

FilenameChars == {"a", "Z", "7", ".", "_", "-", " ", "("}
ExampleFilename == <<"M", "y", " ", "C", "o", "n", "t", "r", "a", "c", "t", " ", "(", "1", ")", ".", "p", "d", "f">>
Filenames ==
  UNION {[1..n -> FilenameChars] : n \in 0..MaxLen} \cup {ExampleFilename}

UploadRequests ==
  [endpoint : {"upload-contract"}, method : {"GET", "POST"},
   body : {NULL} \cup
          [filename : Filenames, content : {"", "JVBERi0="},
           contractData : {NULL, [contractId |-> "CF-1"]}]]

UploadEnv == EnvReading({"GITHUB_TOKEN", "GITHUB_REPO"})

GitHubResponses ==
  {[kind |-> "reject"]} \cup
  [kind : {"json"}, ok : BOOLEAN,
   data : {NULL, [message |-> "Bad credentials"],
           [content |-> [sha |-> "abc123", download_url |-> "https://raw.example/contract.pdf"]],
           [content |-> [sha |-> "abc123", download_url |-> NullStr]]}]

putFileToGitHub(p, base64Content, message, resp) ==
  IF ~TruthyStr(env.GITHUB_TOKEN) \/ ~TruthyStr(env.GITHUB_REPO)
  THEN Throw("Missing GITHUB_TOKEN or GITHUB_REPO", NULL, <<>>)
  ELSE LET request == <<[op |-> "PUT",
                         input |-> [path |-> p, message |-> message,
                                    content |-> base64Content, branch |-> "main"]]>>
       IN
       IF resp.kind = "reject" THEN Throw("fetch failed", NULL, request)
       ELSE IF ~resp.ok
       THEN Throw(IF TruthyObj(resp.data) /\ "message" \in DOMAIN resp.data
                  THEN resp.data.message ELSE "GitHub upload failed", NULL, request)
       ELSE IF resp.data = NULL THEN Throw(TypeErrorMessage, NULL, request)
       ELSE LET hasContent == "content" \in DOMAIN resp.data IN
            Return([sha |-> IF hasContent THEN resp.data.content.sha ELSE NullStr,
                    downloadUrl |->
                      IF hasContent /\ TruthyStr(resp.data.content.download_url)
                      THEN resp.data.content.download_url
                      ELSE "https://raw.githubusercontent.com/" \o env.GITHUB_REPO
                           \o "/main/" \o Join(p)],
                   request)

\* `chore(contracts): add signed contract ${contractId or ''}`.trim()
CommitMessage(contractData) ==
  IF TruthyObj(contractData) /\ TruthyStr(contractData.contractId)
  THEN "chore(contracts): add signed contract " \o contractData.contractId
  ELSE "chore(contracts): add signed contract"

UploadContract ==
  /\ req.endpoint = "upload-contract" /\ pc = "start"
  /\ IF req.method # "POST"
     THEN /\ res' = json(405, [error |-> "Method not allowed"])
          /\ UNCHANGED <<calls, reply, path>>
     ELSE IF req.body = NULL \/ req.body.filename = <<>> \/ ~TruthyStr(req.body.content)
     THEN /\ res' = json(400, [error |-> "Missing filename or content"])
          /\ UNCHANGED <<calls, reply, path>>
     ELSE \E resp \in GitHubResponses :
            LET r == putFileToGitHub(PathOf(req.body.filename), req.body.content,
                                     CommitMessage(req.body.contractData), resp)
            IN /\ path' = PathOf(req.body.filename)
               /\ calls' = calls \o r.requests
               /\ reply' = IF r.requests = <<>> THEN NULL ELSE resp
               /\ res' = IF r.threw
                         THEN json(500, [error |-> IF r.error.message # ""
                                                   THEN r.error.message ELSE "Upload failed"])
                         ELSE json(200, [downloadUrl |-> r.value.downloadUrl,
                                         sha |-> r.value.sha])
  /\ pc' = "done"
  /\ UNCHANGED <<env, req, invoiceVars, provisionVars, caught, result>>

----------------------------------------------------------------------------
(* Contract upload: properties *)

\* an upload that got as far as building the storage path
PathBuilt ==
  /\ req.endpoint = "upload-contract" /\ pc = "done" /\ req.method = "POST"
  /\ req.body # NULL /\ req.body.filename # <<>> /\ req.body.content # ""

\* C10: for a non-empty filename the storage path is "contracts/" followed by
\* the filename with every character outside [a-zA-Z0-9._-] replaced by an
\* underscore and every other character kept in place: same length, only
\* allowed characters, unchanged by sanitizing again; "My Contract (1).pdf"
\* becomes "My_Contract__1_.pdf".
C10_SanitizedPath ==
  PathBuilt =>
    LET f == req.body.filename
        stored == SubSeq(path, Len(ContractsDir) + 1, Len(path))
    IN /\ SubSeq(path, 1, Len(ContractsDir)) = ContractsDir
       /\ Len(stored) = Len(f)
       /\ \A i \in 1..Len(f) :
            /\ f[i] \in AllowedChars => stored[i] = f[i]
            /\ f[i] \notin AllowedChars => stored[i] = "_"
       /\ \A i \in 1..Len(stored) : stored[i] \in AllowedChars
       /\ safeFile(stored) = stored
       /\ f = ExampleFilename => Join(path) = "contracts/My_Contract__1_.pdf"

C10_Witness ==
  /\ PathBuilt /\ req.body.filename = ExampleFilename
  /\ Join(path) = "contracts/My_Contract__1_.pdf"
  /\ res.statusCode = 200

C10_WitnessShort ==
  /\ PathBuilt /\ req.body.filename = <<"a", " ">> /\ path = ContractsDir \o <<"a", "_">>

----------------------------------------------------------------------------

Init ==
  /\ InitLocals
  /\ \/ req \in InvoiceRequests /\ env \in InvoiceEnv
     \/ req \in ProvisionRequests /\ req.endpoint = "create-products" /\ env \in ProvisionEnv
     \/ /\ req \in ProvisionRequests /\ req.endpoint = "create-products-minimal"
        /\ env \in ProvisionMinimalEnv
     \/ /\ req \in ListingRequests /\ req.endpoint # "test-business-id"
        /\ env \in ListingEnv
     \/ /\ req \in ListingRequests /\ req.endpoint = "test-business-id"
        /\ env \in DiscoveryEnv
     \/ req \in UploadRequests /\ env \in UploadEnv

----------------------------------------------------------------------------
(* waveQuery called on its own *)

WaveQueryRequests ==
  [endpoint : {"waveQuery"}, query : {"customerCreate", "invoiceSend"}]

PayloadsOf(query) ==
  IF query = "customerCreate" THEN CustomerPayloads ELSE SendPayloads

InitWaveQuery ==
  /\ InitLocals
  /\ req \in WaveQueryRequests
  /\ env \in EnvReading({"WAVE_API_KEY"})

\* const data = await waveQuery(query, variables)
WaveQueryCall ==
  /\ req.endpoint = "waveQuery" /\ pc = "start"
  /\ \E resp \in ResponsesFull(req.query, PayloadsOf(req.query)) :
       LET r == waveQuery(req.query, NULL, resp)
       IN /\ result' = r
          /\ calls' = calls \o r.requests
          /\ reply' = IF r.requests = <<>> THEN NULL ELSE resp
  /\ pc' = "done"
  /\ UNCHANGED <<env, req, invoiceVars, provisionVars, res, caught, path>>

NextWaveQuery == WaveQueryCall

SpecWaveQuery == InitWaveQuery /\ [][NextWaveQuery]_vars

\* C7: without an API key waveQuery raises and issues no request; with one,
\* it raises exactly when the fetch fails, the status is not successful or
\* the body's errors list is non-empty, and otherwise (errors absent or
\* empty) returns the body's data.
C7_WaveQueryFailsIff ==
  (req.endpoint = "waveQuery" /\ pc = "done") =>
    IF env.WAVE_API_KEY = ""
    THEN result.threw /\ calls = <<>>
    ELSE /\ Len(calls) = 1
         /\ result.threw <=>
              \/ reply.kind = "reject"
              \/ ~reply.ok
              \/ reply.errors # NULL /\ Len(reply.errors.items) > 0
         /\ ~result.threw => result.value = reply.data

----------------------------------------------------------------------------

Next ==
  \/ UploadContract
  \/ ListAccounts
  \/ ListProducts
  \/ TestBusinessId
  \/ ProvisionMinimalStart
  \/ ProvisionMinimalCreate
  \/ ProvisionStart
  \/ ProvisionCreate
  \/ InvoiceStart
  \/ InvoiceCreateCustomer
  \/ InvoiceCreateInvoice
  \/ InvoiceApprove
  \/ InvoiceSend

Spec == Init /\ [][Next]_vars

====
